---- MODULE Spec2Model ----
(***************************************************************************)
(* Model of src/server.js: an Express service with five request handlers   *)
(* over one PostgreSQL table "users", plus the startup and SIGTERM paths.  *)
(*                                                                         *)
(* The database is persistent: the process connects to a database that     *)
(* outlives it, and its schema statement is CREATE TABLE IF NOT EXISTS.  A *)
(* process therefore starts on whatever earlier runs of the service left:  *)
(* no table, an empty table whose sequence has advanced, or a table with   *)
(* rows.  Init draws the table, the sequence and the clock from these; the *)
(* schema statement leaves a table it finds as it is.                      *)
(*                                                                         *)
(* Every SQL statement of the service is a single autocommit statement, so *)
(* the store executes it atomically.  A handler runs synchronously up to   *)
(* an await of pool.query and is resumed when the result is delivered;     *)
(* between the two any other handler, continuation or signal may run.  The *)
(* requests whose handler is suspended at an await are the requests in     *)
(* flight.  A request in flight when the process exits is never answered.  *)
(*                                                                         *)
(* CURRENT_TIMESTAMP is the start time of the statement's transaction, not *)
(* the time at which the statement takes effect.  The pool runs the        *)
(* statements of different requests on different connections, so a         *)
(* statement whose transaction started earlier may take effect after one   *)
(* whose transaction started later.  An INSERT or UPDATE is therefore two  *)
(* steps of the store: its transaction starts and reads the clock when the *)
(* handler sends it, and it is executed at some later instant.  SELECT and *)
(* DELETE read no clock; they are executed at some instant between         *)
(* dispatch and delivery, and since a request may arrive at any instant    *)
(* the model takes that instant to be the dispatch, which loses no order   *)
(* of statements and responses.                                            *)
(*                                                                         *)
(* Scope: the table users, when it exists at startup, is the one this      *)
(* schema statement created, and nothing but this service has written to   *)
(* it (CREATE TABLE IF NOT EXISTS does not verify a table it finds; a      *)
(* table of another shape, or rows and sequence values set by other        *)
(* clients, are not modelled).  The rows found at startup are as their     *)
(* INSERT left them.  The clock does not run backwards and no two          *)
(* transactions read the same instant.  Request values fit their columns   *)
(* (texts of at most 100 characters, ages that denote an int4, ids that    *)
(* are integers), and after the schema statement the store answers every   *)
(* statement; connection failures (the 500 branches) are not modelled.     *)
(* Any number of requests may be in flight together; a run is explored up  *)
(* to MaxRequests requests that reach the store, from each of the stores   *)
(* of StoresAtStart.  The requests of a run carry the bodies of Bodies;    *)
(* the properties are stated for every body of Names, Emails and Ages.     *)
(***************************************************************************)
EXTENDS Integers, Sequences, FiniteSets, Bags, TLC

VARIABLES
    users,      \* rows of table users (src/server.js:31-38)
    seq,        \* last value of the sequence behind "id SERIAL"
    now,        \* the store's clock: the latest instant a transaction read
    schema,     \* outcome of the CREATE TABLE statement: pending / ok / failed
    pc,         \* position of startServer: awaitInit / initialized / listened
    listening,  \* the HTTP server socket is open (app.listen was called)
    poolEnded,  \* pool.end() was called
    sigpc,      \* position of the SIGTERM handler: idle / ended / done
    exit,       \* running / exit0 / exit1
    started,    \* number of requests so far whose handler reached an await
    flight,     \* bag of requests whose handler awaits the result of a statement
    res         \* the response sent by the last step, if it sent one

vars ==
    <<users, seq, now, schema, pc, listening, poolEnded, sigpc, exit, started,
      flight, res>>

-----------------------------------------------------------------------------
(* Bound of the model: the requests of a run that reach the store.  The    *)
(* sequence, the clock and the requests in flight are bounded by it.       *)

MaxRequests == 2

-----------------------------------------------------------------------------
(* JavaScript values of the request body, and of fetched rows *)

Undef == [t |-> "undef", s |-> "", n |-> 0]
Null == [t |-> "null", s |-> "", n |-> 0]
Str(x) == [t |-> "str", s |-> x, n |-> 0]
Num(k) == [t |-> "num", s |-> "", n |-> k]

\* the values a request may carry for each body field
Names == {Undef, Str(""), Str("Ada"), Str("Bob")}
Emails == {Undef, Str(""), Str("a@x"), Str("b@x")}
Ages == {Undef, Num(0), Num(7), Str("7")}
Ids == 1..MaxRequests

\* the bodies the requests of a run carry: three with name and email present
\* (two share an email, two a name; the age is zero, a number and a form
\* text) and one for each way a field is missing or empty
Body(name, email, age) == [name |-> name, email |-> email, age |-> age]

Bodies ==
    {Body(Str("Ada"), Str("a@x"), Num(0)), Body(Str("Bob"), Str("a@x"), Str("7")),
     Body(Str("Ada"), Str("b@x"), Num(7)),
     Body(Undef, Str("a@x"), Undef), Body(Str(""), Str("b@x"), Num(7)),
     Body(Str("Ada"), Undef, Num(0)), Body(Str("Bob"), Str(""), Str("7"))}

\* !v of JavaScript: undefined, null, "" and 0 are falsy
Falsy(v) ==
    \/ v.t = "undef"
    \/ v.t = "null"
    \/ (v.t = "str" /\ v.s = "")
    \/ (v.t = "num" /\ v.n = 0)

\* v || null
OrNull(v) == IF Falsy(v) THEN Null ELSE v

\* the integer a decimal text denotes
ParseInt(s) == CASE s = "0" -> 0 [] s = "7" -> 7

\* a query parameter bound to the column "age INT": null stays NULL, a number
\* is stored as that integer, a text as the integer it denotes
PgInt(v) ==
    CASE v.t = "null" -> Null
      [] v.t = "num" -> Num(v.n)
      [] v.t = "str" -> Num(ParseInt(v.s))

-----------------------------------------------------------------------------
(* The table and the statements the handlers issue.  The store is assumed  *)
(* reachable once the schema statement has succeeded; only the schema      *)
(* statement itself may fail.                                              *)

Row(id, name, email, age, created, updated) ==
    [id |-> id, name |-> name, email |-> email, age |-> age,
     created_at |-> created, updated_at |-> updated]

\* SELECT * FROM users WHERE id = $1
GetById(rows, id) == {u \in rows : u.id = id}

RECURSIVE SortDesc(_)
SortDesc(S) ==
    IF S = {} THEN <<>>
    ELSE LET m == CHOOSE u \in S : \A v \in S : v.created_at <= u.created_at
         IN  <<m>> \o SortDesc(S \ {m})

ListAllLimit(rows) == IF rows = {} THEN <<>> ELSE <<SortDesc(rows)[1]>>
\* SELECT * FROM users ORDER BY created_at DESC
ListAll(rows) == SortDesc(rows)

NoUniqueCheck(rows, email, id) == FALSE
\* email VARCHAR(100) UNIQUE: a row other than row id already has this email
UniqueViolation(rows, email, id) ==
    \E u \in rows : u.email = email /\ u.id # id

\* id SERIAL: nextval of the sequence; a value is consumed by every INSERT,
\* also by one that then fails on the unique index
NextVal(s) == s + 1

\* INSERT INTO users (name, email, age) VALUES ($1, $2, $3): the new row, both
\* timestamps defaulting to the statement's CURRENT_TIMESTAMP
InsertedRow(id, name, email, age, ts) ==
    Row(id, name.s, email.s, PgInt(age), ts, ts)

\* UPDATE users SET name = $1, email = $2, age = $3,
\*   updated_at = CURRENT_TIMESTAMP WHERE id = $4
UpdatedRow(u, name, email, age, ts) ==
    [u EXCEPT !.name = name.s, !.email = email.s, !.age = PgInt(age),
              !.updated_at = ts]

DeleteEveryRow(rows, id) == {}
\* DELETE FROM users WHERE id = $1
DeleteFrom(rows, id) == {u \in rows : u.id # id}

-----------------------------------------------------------------------------
(* Pieces of the handlers *)

InvalidNameOnly(name, email) == Falsy(name)
\* if (!name || !email)
Invalid(name, email) == Falsy(name) \/ Falsy(email)

CreateErrorAlways500(code) == 500
\* catch of POST /users: error.code === '23505' is answered 400, else 500
CreateErrorStatus(code) == IF code = "23505" THEN 400 ELSE 500

\* catch of PUT /users/:id
UpdateErrorStatus(code) == IF code = "23505" THEN 400 ELSE 500

UpdateRowsStatusAlways200(n) == 200
\* if (result.rows.length === 0) 404, else 200
UpdateRowsStatus(n) == IF n = 0 THEN 404 ELSE 200

\* if (result.rows.length === 0) 404, else 200
DeleteRowsStatus(n) == IF n = 0 THEN 404 ELSE 200

\* the response produced by a step: the handler that answered, the status
\* and which error message the body carries.  status 0: no response yet.
\* list and editing are the view model given to res.render; touched tells
\* whether a write ran between the two reads of GET /users/:id.
NoResponse ==
    [op |-> "none", status |-> 0, error |-> "", list |-> <<>>,
     editing |-> {}, touched |-> FALSE]

Answer(op, status, error) ==
    [NoResponse EXCEPT !.op = op, !.status = status, !.error = error]

\* a request in flight: its handler, the await it is suspended at, what its
\* statement returned (the status and error the continuation will answer, the
\* row of the first read, the rows of the list) and whether a write ran
\* since the first read of GET /users/:id.  While an INSERT or UPDATE is
\* sent and not yet executed (st = "sent"), id and body are its parameters
\* and ts is the CURRENT_TIMESTAMP of its transaction.
NoBody == Body(Undef, Undef, Undef)

InFlight(op, st, status, error) ==
    [op |-> op, st |-> st, status |-> status, error |-> error, row |-> {},
     list |-> <<>>, touched |-> FALSE, id |-> 0, body |-> NoBody, ts |-> 0]

\* an INSERT or UPDATE sent to the store, its transaction started at ts
Sent(op, id, name, email, age, ts) ==
    [InFlight(op, "sent", 0, "") EXCEPT
       !.id = id, !.body = Body(name, email, age), !.ts = ts]

\* a request goes in flight when its handler reaches an await
Put(f, r) == f (+) SetToBag({r})

\* a request leaves flight when the result is delivered to its handler
Take(f, r) == f (-) SetToBag({r})

\* r is a GET /users/:id suspended after a first read that found its row
BetweenReads(r) == r.op = "getone" /\ r.st = "read1" /\ r.row # {}

\* r after a write: a GET /users/:id between its reads has seen it happen
Touched(r) == IF BetweenReads(r) THEN [r EXCEPT !.touched = TRUE] ELSE r

\* the requests in flight after a write
Touch(f) ==
    LET S == BagToSet(f) IN
    [x \in {Touched(r) : r \in S} |->
       (IF x \in S /\ Touched(x) = x THEN f[x] ELSE 0) +
       (IF x.touched /\ [x EXCEPT !.touched = FALSE] \in S
           /\ Touched([x EXCEPT !.touched = FALSE]) = x
        THEN f[[x EXCEPT !.touched = FALSE]] ELSE 0)]

\* JavaScript of the process runs: not exited, not inside the SIGTERM handler
Running == exit = "running" /\ sigpc = "idle"

\* a request handler can be entered
Serving == Running /\ listening

\* the run goes on to one more request that reaches the store
CanAccept == started < MaxRequests

-----------------------------------------------------------------------------
(* Initial state: the module is loaded, startServer() has been called and  *)
(* is suspended in initializeDatabase on the CREATE TABLE statement.  The  *)
(* database is the one named by the pool's configuration, as earlier runs  *)
(* left it.                                                                *)

\* the table and the sequence found at startup: the database before its
\* first run (no table, or an empty one); one whose only record was deleted,
\* so that id 1 is spent; and one that holds record 1, as its INSERT left
\* it.  The clock has been read once for each id issued.
StoresAtStart ==
    {[users |-> {}, seq |-> 0],
     [users |-> {}, seq |-> 1],
     [users |-> {InsertedRow(1, Str("Ada"), Str("a@x"), OrNull(Num(0)), 1)},
      seq |-> 1]}

Init ==
    /\ \E st \in StoresAtStart :
         /\ users = st.users
         /\ seq = st.seq
         /\ now = st.seq
         /\ started = 0
    /\ schema = "pending"
    /\ pc = "awaitInit"
    /\ listening = FALSE
    /\ poolEnded = FALSE
    /\ sigpc = "idle"
    /\ exit = "running"
    /\ flight = EmptyBag
    /\ res = NoResponse

-----------------------------------------------------------------------------
(* Startup *)

\* initializeDatabase: the CREATE TABLE IF NOT EXISTS statement succeeds
InitializeDatabaseOk ==
    /\ Running /\ pc = "awaitInit"
    /\ schema' = "ok"
    /\ pc' = "initialized"
    /\ res' = NoResponse
    /\ UNCHANGED <<users, seq, now, listening, poolEnded, sigpc, exit,
                   started, flight>>

InitializeDatabaseFailNoExit ==
    /\ Running /\ pc = "awaitInit"
    /\ schema' = "failed"
    /\ pc' = "initialized"
    /\ res' = NoResponse
    /\ UNCHANGED <<users, seq, now, listening, poolEnded, sigpc, exit,
                   started, flight>>
\* initializeDatabase: the statement fails; the catch logs and process.exit(1)
InitializeDatabaseFail ==
    /\ Running /\ pc = "awaitInit"
    /\ schema' = "failed"
    /\ exit' = "exit1"
    /\ res' = NoResponse
    /\ UNCHANGED <<users, seq, now, pc, listening, poolEnded, sigpc, started,
                   flight>>

\* startServer after await initializeDatabase(): app.listen(PORT, ...)
Listen ==
    /\ Running /\ pc = "initialized"
    /\ listening' = TRUE
    /\ pc' = "listened"
    /\ res' = NoResponse
    /\ UNCHANGED <<users, seq, now, schema, poolEnded, sigpc, exit, started,
                   flight>>

\* app.listen throws (a port out of range): startServer rejects and its catch
\* logs and process.exit(1)
ListenFail ==
    /\ Running /\ pc = "initialized"
    /\ exit' = "exit1"
    /\ res' = NoResponse
    /\ UNCHANGED <<users, seq, now, schema, pc, listening, poolEnded, sigpc,
                   started, flight>>

-----------------------------------------------------------------------------
(* SIGTERM handler, statement by statement.  The handler is synchronous:   *)
(* no other JavaScript runs between its two statements.  A signal is       *)
(* dispatched from the event loop, so not between the resolution of        *)
(* initializeDatabase and app.listen, which are joined by a microtask.     *)

\* pool.end();
SigtermPoolEnd ==
    /\ Running /\ pc # "initialized"
    /\ poolEnded' = TRUE
    /\ sigpc' = "ended"
    /\ res' = NoResponse
    /\ UNCHANGED <<users, seq, now, schema, pc, listening, exit, started,
                   flight>>

\* process.exit(0); the process's sockets close with it
SigtermExit ==
    /\ exit = "running" /\ sigpc = "ended"
    /\ exit' = "exit0"
    /\ sigpc' = "done"
    /\ listening' = FALSE
    /\ res' = NoResponse
    /\ UNCHANGED <<users, seq, now, schema, pc, poolEnded, started, flight>>

-----------------------------------------------------------------------------
(* What each statement and each handler does to the store and answers, as *)
(* a function of the store and of the request.  queries counts the         *)
(* statements a handler issues.                                            *)

\* the INSERT of POST /users, its transaction started at ts, executed on
\* rows, and what the handler answers to its result
InsertOutcome(rows, s, ts, name, email, age) ==
    LET id == NextVal(s) IN
    IF UniqueViolation(rows, email.s, id)
    THEN [status |-> CreateErrorStatus("23505"), error |-> "exists",
          id |-> 0, users |-> rows, seq |-> id]
    ELSE [status |-> 302, error |-> "", id |-> id,
          users |-> rows \cup {InsertedRow(id, name, email, OrNull(age), ts)},
          seq |-> id]

\* POST /users with body {name, email, age}, the INSERT executed as soon as
\* it is sent, at clock t
CreateOutcome(rows, s, t, name, email, age) ==
    IF Invalid(name, email)
    THEN [status |-> 400, error |-> "required", id |-> 0, users |-> rows,
          seq |-> s, now |-> t, queries |-> 0]
    ELSE LET o == InsertOutcome(rows, s, t + 1, name, email, age) IN
         [status |-> o.status, error |-> o.error, id |-> o.id,
          users |-> o.users, seq |-> o.seq, now |-> t + 1, queries |-> 1]

\* the UPDATE of PUT /users/:id, its transaction started at ts, executed on
\* rows, and what the handler answers to its result
UpdateStatementOutcome(rows, ts, id, name, email, age) ==
    LET hit == GetById(rows, id) IN
    IF hit = {}
    THEN [status |-> UpdateRowsStatus(0), error |-> "notfound",
          users |-> rows]
    ELSE IF UniqueViolation(rows, email.s, id)
    THEN [status |-> UpdateErrorStatus("23505"), error |-> "exists",
          users |-> rows]
    ELSE LET new == {UpdatedRow(u, name, email, OrNull(age), ts) : u \in hit}
         IN  [status |-> UpdateRowsStatus(Cardinality(new)), error |-> "",
              users |-> (rows \ hit) \cup new]

\* PUT /users/:id with body {name, email, age}, the UPDATE executed as soon
\* as it is sent, at clock t
UpdateOutcome(rows, t, id, name, email, age) ==
    IF Invalid(name, email)
    THEN [status |-> 400, error |-> "required", users |-> rows, now |-> t,
          queries |-> 0]
    ELSE LET o == UpdateStatementOutcome(rows, t + 1, id, name, email, age) IN
         [status |-> o.status, error |-> o.error, users |-> o.users,
          now |-> t + 1, queries |-> 1]

\* DELETE /users/:id
DeleteOutcome(rows, id) ==
    LET hit == GetById(rows, id) IN
    [status |-> DeleteRowsStatus(Cardinality(hit)),
     error |-> IF hit = {} THEN "notfound" ELSE "",
     users |-> DeleteFrom(rows, id), queries |-> 1]

\* GET /users/:id, first statement: 404 when no row, else go on (status 0)
FetchOutcome(rows, id) ==
    LET hit == GetById(rows, id) IN
    [status |-> IF hit = {} THEN 404 ELSE 0,
     error |-> IF hit = {} THEN "notfound" ELSE "", row |-> hit]

\* GET /users/:id, second statement and res.render('index', ...)
RenderOutcome(rows, g) ==
    [status |-> 200, list |-> ListAll(rows), editing |-> g.row]

-----------------------------------------------------------------------------
(* Request handlers.  A handler runs synchronously up to its await; the    *)
(* statement it sent is executed by the store, and the handler's           *)
(* continuation answers when the result is delivered.  Between the two any *)
(* other handler, continuation or signal may run.  The store executes a    *)
(* statement it has received whether or not the process still runs.        *)

\* GET /: the handler is entered and its SELECT is executed
ListReq ==
    /\ Serving
    /\ CanAccept
    /\ started' = started + 1
    /\ flight' = Put(flight, [InFlight("list", "result", 200, "") EXCEPT
                                !.list = ListAll(users)])
    /\ res' = NoResponse
    /\ UNCHANGED <<users, seq, now, schema, pc, listening, poolEnded, sigpc,
                   exit>>

\* GET /: res.render('index', { users: result.rows, editingUser: null })
ListRespond(r) ==
    /\ Running
    /\ r.op = "list"
    /\ res' = [Answer("list", r.status, "") EXCEPT !.list = r.list]
    /\ flight' = Take(flight, r)
    /\ UNCHANGED <<users, seq, now, schema, pc, listening, poolEnded, sigpc,
                   exit, started>>

List == ListReq \/ \E r \in BagToSet(flight) : ListRespond(r)

\* POST /users: validation, which answers at once, or the INSERT is sent
\* and its transaction starts
CreateReq(name, email, age) ==
    /\ Serving
    /\ IF Invalid(name, email)
       THEN /\ flight' = flight
            /\ started' = started
            /\ now' = now
            /\ res' = Answer("create", 400, "required")
       ELSE /\ CanAccept
            /\ started' = started + 1
            /\ now' = now + 1
            /\ flight' = Put(flight, Sent("create", 0, name, email, age, now + 1))
            /\ res' = NoResponse
    /\ UNCHANGED <<users, seq, schema, pc, listening, poolEnded, sigpc, exit>>

\* the store executes the INSERT
CreateExec(r) ==
    /\ r.op = "create" /\ r.st = "sent"
    /\ \E o \in {InsertOutcome(users, seq, r.ts, r.body.name, r.body.email,
                                r.body.age)} :
       /\ users' = o.users /\ seq' = o.seq
       /\ flight' =
            Put(Take(IF o.users # users THEN Touch(flight) ELSE flight, r),
                InFlight("create", "result", o.status, o.error))
    /\ res' = NoResponse
    /\ UNCHANGED <<now, schema, pc, listening, poolEnded, sigpc, exit,
                   started>>

\* POST /users: res.redirect('/'), or the catch
CreateRespond(r) ==
    /\ Running
    /\ r.op = "create" /\ r.st = "result"
    /\ res' = Answer("create", r.status, r.error)
    /\ flight' = Take(flight, r)
    /\ UNCHANGED <<users, seq, now, schema, pc, listening, poolEnded, sigpc,
                   exit, started>>

Create ==
    \/ \E b \in Bodies : CreateReq(b.name, b.email, b.age)
    \/ \E r \in BagToSet(flight) : CreateExec(r) \/ CreateRespond(r)

\* GET /users/:id: the handler is entered and its first SELECT is executed
GetOneRead1(id) ==
    /\ Serving
    /\ CanAccept
    /\ started' = started + 1
    /\ \E o \in {FetchOutcome(users, id)} :
       flight' = Put(flight,
                     [InFlight("getone", "read1", o.status, o.error) EXCEPT
                        !.row = o.row])
    /\ res' = NoResponse
    /\ UNCHANGED <<users, seq, now, schema, pc, listening, poolEnded, sigpc,
                   exit>>

\* GET /users/:id after the first await: 404 when no row came back, else the
\* second SELECT is sent and executed
GetOneRead2(r) ==
    /\ Running
    /\ r.op = "getone" /\ r.st = "read1"
    /\ IF r.row = {}
       THEN /\ res' = Answer("getone", r.status, r.error)
            /\ flight' = Take(flight, r)
       ELSE /\ \E o \in {RenderOutcome(users, r)} :
               flight' = Put(Take(flight, r),
                             [r EXCEPT !.st = "read2", !.status = o.status,
                                       !.list = o.list])
            /\ res' = NoResponse
    /\ UNCHANGED <<users, seq, now, schema, pc, listening, poolEnded, sigpc,
                   exit, started>>

\* GET /users/:id after the second await: res.render('index', ...)
GetOneRender(r) ==
    /\ Running
    /\ r.op = "getone" /\ r.st = "read2"
    /\ res' = [Answer("getone", r.status, "") EXCEPT
                 !.list = r.list, !.editing = r.row, !.touched = r.touched]
    /\ flight' = Take(flight, r)
    /\ UNCHANGED <<users, seq, now, schema, pc, listening, poolEnded, sigpc,
                   exit, started>>

GetOne ==
    \/ \E id \in Ids : GetOneRead1(id)
    \/ \E r \in BagToSet(flight) : GetOneRead2(r) \/ GetOneRender(r)

\* PUT /users/:id: validation, which answers at once, or the UPDATE is sent
\* and its transaction starts
UpdateReq(id, name, email, age) ==
    /\ Serving
    /\ IF Invalid(name, email)
       THEN /\ flight' = flight
            /\ started' = started
            /\ now' = now
            /\ res' = Answer("update", 400, "required")
       ELSE /\ CanAccept
            /\ started' = started + 1
            /\ now' = now + 1
            /\ flight' = Put(flight, Sent("update", id, name, email, age, now + 1))
            /\ res' = NoResponse
    /\ UNCHANGED <<users, seq, schema, pc, listening, poolEnded, sigpc, exit>>

\* the store executes the UPDATE
UpdateExec(r) ==
    /\ r.op = "update" /\ r.st = "sent"
    /\ \E o \in {UpdateStatementOutcome(users, r.ts, r.id, r.body.name,
                                         r.body.email, r.body.age)} :
       /\ users' = o.users
       /\ flight' =
            Put(Take(IF o.users # users THEN Touch(flight) ELSE flight, r),
                InFlight("update", "result", o.status, o.error))
    /\ res' = NoResponse
    /\ UNCHANGED <<seq, now, schema, pc, listening, poolEnded, sigpc, exit,
                   started>>

\* PUT /users/:id: 404, res.json(...), or the catch
UpdateRespond(r) ==
    /\ Running
    /\ r.op = "update" /\ r.st = "result"
    /\ res' = Answer("update", r.status, r.error)
    /\ flight' = Take(flight, r)
    /\ UNCHANGED <<users, seq, now, schema, pc, listening, poolEnded, sigpc,
                   exit, started>>

Update ==
    \/ \E id \in Ids, b \in Bodies : UpdateReq(id, b.name, b.email, b.age)
    \/ \E r \in BagToSet(flight) : UpdateExec(r) \/ UpdateRespond(r)

\* DELETE /users/:id: the handler is entered and its DELETE is executed
DeleteReq(id) ==
    /\ Serving
    /\ CanAccept
    /\ started' = started + 1
    /\ \E o \in {DeleteOutcome(users, id)} :
       /\ users' = o.users
       /\ flight' = Put(IF o.users # users THEN Touch(flight) ELSE flight,
                        InFlight("delete", "result", o.status, o.error))
    /\ res' = NoResponse
    /\ UNCHANGED <<seq, now, schema, pc, listening, poolEnded, sigpc, exit>>

\* DELETE /users/:id: 404 or res.json(...)
DeleteRespond(r) ==
    /\ Running
    /\ r.op = "delete"
    /\ res' = Answer("delete", r.status, r.error)
    /\ flight' = Take(flight, r)
    /\ UNCHANGED <<users, seq, now, schema, pc, listening, poolEnded, sigpc,
                   exit, started>>

Delete ==
    \/ \E id \in Ids : DeleteReq(id)
    \/ \E r \in BagToSet(flight) : DeleteRespond(r)

\* GET /health
Health ==
    /\ Serving
    /\ res' = Answer("health", 200, "")
    /\ UNCHANGED <<users, seq, now, schema, pc, listening, poolEnded, sigpc,
                   exit, started, flight>>

-----------------------------------------------------------------------------

Next ==
    \/ InitializeDatabaseOk
    \/ InitializeDatabaseFail
    \/ Listen
    \/ ListenFail
    \/ SigtermPoolEnd
    \/ SigtermExit
    \/ List
    \/ Create
    \/ GetOne
    \/ Update
    \/ Delete
    \/ Health

Spec == Init /\ [][Next]_vars

-----------------------------------------------------------------------------
(* Properties.  A property of a handler is stated for every request that   *)
(* can be made in a reachable state in which handlers run.                 *)

\* a body field that is missing or empty
MissingOrEmpty(v) == v = Undef \/ v = Str("")

\* the elements of a list
SeqToSet(q) == {q[i] : i \in 1..Len(q)}

\* the integer a submitted age stands for
AgeValue(a) == IF a.t = "str" THEN Num(ParseInt(a.s)) ELSE a

\* name and email are both present and non-empty
ValidBody(name, email) == ~MissingOrEmpty(name) /\ ~MissingOrEmpty(email)

\* C1: in every reachable state, whatever store the process started on and
\* however the statements of concurrent requests interleave, no two records
\* share an id and no two records share an email.
C1_UniqueIdAndEmail ==
    \A u \in users, v \in users :
        u # v => (u.id # v.id /\ u.email # v.email)

\* two records are stored, and an update has just tried to give one of them
\* the email of the other
C1_Witness ==
    /\ Cardinality(users) = 2
    /\ res.op = "update" /\ res.error = "exists"

\* C2: a create whose email is already stored, and an update of an existing
\* record whose new email is that of a different stored record, is answered
\* 400 and leaves every record of the table as it was; after the duplicate
\* create exactly one record has that email.  The refused INSERT has drawn
\* one value from the id sequence, which is not given back.
C2_DuplicateEmailRejected ==
    Serving =>
      \A n \in Names, e \in Emails :
        (ValidBody(n, e) /\ \E u \in users : u.email = e.s) =>
          \A a \in Ages :
            /\ LET o == CreateOutcome(users, seq, now, n, e, a) IN
               /\ o.status = 400
               /\ o.users = users
               /\ o.seq = seq + 1
               /\ Cardinality({u \in o.users : u.email = e.s}) = 1
            /\ \A t \in users :
                 (\E u \in users : u.email = e.s /\ u.id # t.id) =>
                   LET o == UpdateOutcome(users, now, t.id, n, e, a) IN
                   /\ o.status = 400
                   /\ o.users = users

\* a create has just been refused because its email exists, and the table
\* holds one record
C2_Witness ==
    /\ res.op = "create" /\ res.status = 400 /\ res.error = "exists"
    /\ Cardinality(users) = 1

\* C3: for every create with non-empty name, non-empty unused email and an
\* age that is an integer or absent, the create succeeds and the record
\* fetched by the new id has the submitted name, email and age (null exactly
\* when the age was absent) and created_at = updated_at.
C3_CreateThenFetchMatches ==
    Serving =>
      \A n \in Names, e \in Emails :
        (ValidBody(n, e) /\ ~\E u \in users : u.email = e.s) =>
          \A a \in Ages :
            LET o == CreateOutcome(users, seq, now, n, e, a) IN
            /\ o.status = 302
            /\ \E r \in GetById(o.users, o.id) :
                 /\ r.name = n.s
                 /\ r.email = e.s
                 /\ r.age = (IF a = Undef THEN Null ELSE AgeValue(a))
                 /\ r.created_at = r.updated_at

\* C4: an update with valid name and email whose id matches no record is
\* answered 404 and leaves the table as it was.
C4_UpdateMissingIdNotFound ==
    Serving =>
      \A i \in Ids :
        GetById(users, i) = {} =>
          \A n \in Names, e \in Emails :
            ValidBody(n, e) =>
              \A a \in Ages :
                LET o == UpdateOutcome(users, now, i, n, e, a) IN
                /\ o.status = 404
                /\ o.users = users

\* every id issued so far has been deleted again, and an update has just
\* been answered not-found
C4_Witness ==
    /\ res.op = "update" /\ res.status = 404
    /\ seq >= 1 /\ users = {}

\* C5: a delete of an existing record is answered 200 and removes exactly
\* that record, so the list gets shorter by one and every other record stays
\* as it was; a fetch-one whose first read finds no record of its id is
\* answered 404 without a second read; and an id that has been issued and
\* has no record never has a record again, whatever is created later.
C5_DeleteRemovesExactlyOne ==
    /\ [](Serving =>
            /\ \A u \in users :
                 LET o == DeleteOutcome(users, u.id) IN
                 /\ o.status = 200
                 /\ o.users = users \ {u}
                 /\ Len(ListAll(o.users)) = Len(ListAll(users)) - 1
                 /\ FetchOutcome(o.users, u.id).status = 404
            /\ \A i \in Ids :
                 GetById(users, i) = {} => FetchOutcome(users, i).status = 404
            /\ \A g \in BagToSet(flight) :
                 (g.op = "getone" /\ g.row = {}) =>
                   (g.st = "read1" /\ g.status = 404))
    /\ [][ \A i \in 1..seq :
             GetById(users, i) = {} => GetById(users', i) = {} ]_vars

\* record 1 has just been deleted while record 2, created after it, remains
C5_Witness ==
    /\ res.op = "delete" /\ res.status = 200
    /\ seq = 2
    /\ \E u \in users : u.id = 2
    /\ Cardinality(users) = 1

\* C6: updated_at >= created_at for every record in every reachable state;
\* and an update of an existing record that keeps the record's own email is
\* answered 200, keeps id and created_at, stores the new name and yields
\* updated_at > created_at.
C6_UpdateKeepsEmail ==
    /\ \A v \in users : v.updated_at >= v.created_at
    /\ Serving =>
         \A u \in users, n \in Names, a \in Ages :
           ValidBody(n, Str(u.email)) =>
             LET o == UpdateOutcome(users, now, u.id, n, Str(u.email), a) IN
             /\ o.status = 200
             /\ Cardinality(o.users) = Cardinality(users)
             /\ \E v \in o.users :
                  /\ v.id = u.id
                  /\ v.name = n.s
                  /\ v.email = u.email
                  /\ v.created_at = u.created_at
                  /\ v.updated_at > v.created_at

\* C7: the server listens, and a request is taken or answered, only after the
\* schema statement has succeeded; if it failed the process has exited with
\* code 1 without listening.
C7_ListenOnlyAfterSchema ==
    /\ listening => schema = "ok"
    /\ (res.op # "none" \/ flight # EmptyBag) => schema = "ok"
    /\ schema = "failed" => (exit = "exit1" /\ ~listening /\ pc = "awaitInit")

\* the schema statement failed and the process is gone
C7_Witness == schema = "failed" /\ exit = "exit1" /\ ~listening

\* C8: on SIGTERM the server has stopped accepting connections by the time
\* the pool is closed.
C8_StopAcceptingBeforePoolEnd == poolEnded => ~listening

\* C9: a create or update whose name or email is missing or empty is
\* answered 400 and issues no statement: table, sequence and clock are as
\* before, whatever the id of the update.
C9_ValidationFirst ==
    Serving =>
      \A n \in Names, e \in Emails :
        ~ValidBody(n, e) =>
          \A a \in Ages :
            /\ LET o == CreateOutcome(users, seq, now, n, e, a) IN
               /\ o.status = 400 /\ o.queries = 0
               /\ o.users = users /\ o.seq = seq /\ o.now = now
            /\ \A i \in Ids :
                 LET o == UpdateOutcome(users, now, i, n, e, a) IN
                 /\ o.status = 400 /\ o.queries = 0
                 /\ o.users = users /\ o.now = now

\* an update has just been refused for a missing field while no record, so
\* no record of its id, exists
C9_Witness ==
    /\ res.op = "update" /\ res.status = 400 /\ res.error = "required"
    /\ users = {}

\* C10: the second read of a suspended fetch-one answers 200 with the record
\* of the first read as editing record and the current table as list; when
\* no write ran between the two reads the editing record is an element of
\* the list.
C10_EditingRecordVsList ==
    \A g \in BagToSet(flight) :
      /\ BetweenReads(g) =>
           LET o == RenderOutcome(users, g) IN
           /\ o.status = 200
           /\ o.editing = g.row
           /\ SeqToSet(o.list) = users
           /\ ~g.touched => \A r \in o.editing : r \in SeqToSet(o.list)
      /\ (g.op = "getone" /\ g.st = "read2") =>
           /\ g.status = 200
           /\ g.row # {}
           /\ ~g.touched => \A r \in g.row : r \in SeqToSet(g.list)

\* a write ran between the two reads: the page was rendered with an editing
\* record that is not in its list
C10_Witness ==
    /\ res.op = "getone" /\ res.status = 200 /\ res.touched
    /\ \E r \in res.editing : r \notin SeqToSet(res.list)

====
